---- MODULE Spec2Model ----
(***************************************************************************)
(* Four-wire SPI transport backend of the SSD1306 driver (ssd1306_spi.c).  *)
(*                                                                         *)
(* One device handle d (fields vt, bus_ctx), the heap of backend contexts, *)
(* the devices registered on the SPI bus, the control pins, and a set of   *)
(* execution contexts (threads) that call ssd1306_bind_spi,                *)
(* ssd1306_unbind_spi and the three vtable methods.  Every call is a       *)
(* sequence of steps, one per access to shared state, so that calls of     *)
(* different threads can interleave.  A call ends in pc = "done", where    *)
(* its return value, the events it caused and the state it started from    *)
(* are visible; Return takes the thread back to "idle".                    *)
(*                                                                         *)
(* The handle's framebuffer, its lock, draw_pixel, draw_rect and display() *)
(* live in ssd1306.c and are modelled as the driver's specification        *)
(* describes them.                                                         *)
(***************************************************************************)
EXTENDS Integers, Sequences, FiniteSets, TLC

\* ---- bounds of the model ----
MaxCtx == 2        \* contexts the heap can hold before calloc must fail
MaxDev == 2        \* devices the bus can hold before spi_bus_add_device must fail
MaxChunks == 2     \* payloads reach MaxChunks * MAX + 1 bytes
MaxCalls == 3      \* calls in one run in which calls overlap
NThreads == 2      \* execution contexts
FbWidth == 2       \* display width in pixels
FbPages == 2       \* display height in pages of 8 pixel rows

\* ---- program constants ----
GPIO_NUM_NC == -1
CMD_MAX == 32
DATA_MAX == 1024
DC_PIN == 16
RST_PIN == 17
DEFAULT_CLK_HZ == 8000000
VT_SPI == 4         \* address of the static vtable (any non-null value)

NULL == 0
Threads == 1..NThreads
CtxAddrs == {8 * i : i \in 1..MaxCtx}
DevIds == 1..MaxDev
Pins == {DC_PIN, RST_PIN}
AddErrs == {"ESP_ERR_NOT_FOUND"}
XferErrs == {"ESP_ERR_TIMEOUT", "ESP_ERR_INVALID_ARG"}
FbHeight == 8 * FbPages
FbLen == FbWidth * FbPages
ZeroFb == [i \in 1..FbLen |-> 0]

VARIABLES
    vt,          \* d->vt: NULL or VT_SPI
    bus_ctx,     \* d->bus_ctx: NULL or the address of a context
    heap,        \* contents of the memory at each context address
    live,        \* context addresses allocated and not yet freed
    registered,  \* device handles currently registered on the bus
    pinMode,     \* mode of each control pin
    pinLevel,    \* output level of each control pin
    cur,         \* the polling transaction in flight on the bus, or NoTrans
    ub,          \* undefined behaviour happened (use after free, double free)
    pc,          \* position of each thread
    loc,         \* locals and arguments of each thread's call
    log,         \* events caused by each thread's current call
    ret,         \* return value of each thread's current call
    pre,         \* shared state at the start of each thread's current call
    prev,        \* summary of the call that completed last on the handle
    ncalls,      \* calls started so far, counted where the run is bounded
    fb,          \* the framebuffer bytes, page-major
    lock,        \* the handle's lock: 0 or the thread that holds it
    snaps        \* framebuffer contents after each completed drawing call

vars == <<vt, bus_ctx, heap, live, registered, pinMode, pinLevel, cur, ub,
          pc, loc, log, ret, pre, prev, ncalls, fb, lock, snaps>>

\* ---- records ----
ZeroCtx == [dev |-> NULL, host |-> 0, dc_gpio |-> 0, rst_gpio |-> 0, clk_hz |-> 0]
NoTrans == [owner |-> 0, dev |-> NULL]
NoLoc == [op |-> "none", d |-> FALSE, dc_gpio |-> GPIO_NUM_NC,
          rst_gpio |-> GPIO_NUM_NC, clk_hz |-> 0, dev |-> NULL, ctx |-> NULL,
          buf |-> FALSE, n |-> 0, off |-> 0, blk |-> 0, user |-> 0, dcbit |-> 0,
          x |-> 0, y |-> 0, w |-> 0, h |-> 0, on |-> FALSE, sent |-> <<>>]
NoPrev == [op |-> "none", regBefore |-> {}, dev |-> NULL]
Ev(e, x, y, z, w, s) == [e |-> e, x |-> x, y |-> y, z |-> z, w |-> w, s |-> s]
Snapshot == [vt |-> vt, bus_ctx |-> bus_ctx, registered |-> registered,
             live |-> live, pinMode |-> pinMode, pinLevel |-> pinLevel,
             fb |-> fb]
NoPre == [vt |-> NULL, bus_ctx |-> NULL, registered |-> {}, live |-> {},
          pinMode |-> [p \in Pins |-> "disabled"], pinLevel |-> [p \in Pins |-> 0],
          fb |-> ZeroFb]

Min(S) == CHOOSE x \in S : \A y \in S : x <= y

Init ==
    /\ vt = NULL
    /\ bus_ctx = NULL
    /\ heap = [c \in CtxAddrs |-> ZeroCtx]
    /\ live = {}
    /\ registered = {}
    /\ pinMode = [p \in Pins |-> "disabled"]
    /\ pinLevel = [p \in Pins |-> 0]
    /\ cur = NoTrans
    /\ ub = FALSE
    /\ pc = [t \in Threads |-> "idle"]
    /\ loc = [t \in Threads |-> NoLoc]
    /\ log = [t \in Threads |-> <<>>]
    /\ ret = [t \in Threads |-> "ESP_OK"]
    /\ pre = [t \in Threads |-> NoPre]
    /\ prev = NoPrev
    /\ ncalls = 0
    /\ fb = ZeroFb
    /\ lock = 0
    /\ snaps = {ZeroFb}

\* ---- small helpers for the per-thread bookkeeping ----
Goto(t, p) == pc' = [pc EXCEPT ![t] = p]
Emit(t, evs) == log' = [log EXCEPT ![t] = @ \o evs]
SetRet(t, r) == ret' = [ret EXCEPT ![t] = r]
Others(t) == Threads \ {t}
At(t, p) == ~ub /\ pc[t] = p
IsSend(op) == op \in {"send_cmd", "send_data"}
IsDrawOp(op) == op \in {"draw_pixel", "draw_rect"}
IsFbOp(op) == IsDrawOp(op) \/ op = "display"

\* Which calls the callers let overlap.  "seq": one call at a time on the
\* handle.  "send": vtable send calls overlap each other, everything else is
\* exclusive.  "unb": as "send", and one unbind overlaps the send calls.
\* "draw": drawing calls and display overlap each other.  "pix": a single
\* call.  "conc": any calls overlap.
MayStart(m, t, op) ==
    CASE m = "seq" -> \A u \in Others(t) : pc[u] = "idle"
      [] m = "send" ->
            IF IsSend(op)
            THEN \A u \in Others(t) : pc[u] = "idle" \/ IsSend(loc[u].op)
            ELSE \A u \in Others(t) : pc[u] = "idle"
      [] m = "unb" ->
            IF IsSend(op)
            THEN \A u \in Others(t) :
                    pc[u] = "idle" \/ IsSend(loc[u].op) \/ loc[u].op = "unbind"
            ELSE IF op = "unbind"
            THEN \A u \in Others(t) : pc[u] = "idle" \/ IsSend(loc[u].op)
            ELSE \A u \in Others(t) : pc[u] = "idle"
      [] m = "draw" ->
            IF IsFbOp(op)
            THEN \A u \in Others(t) : pc[u] = "idle" \/ IsFbOp(loc[u].op)
            ELSE \A u \in Others(t) : pc[u] = "idle"
      [] m = "pix" -> \A u \in Others(t) : pc[u] = "idle"
      [] OTHER -> TRUE

\* A run in which calls overlap is explored up to MaxCalls calls.
Budget(m) ==
    IF m = "seq" THEN UNCHANGED ncalls
    ELSE IF m = "pix" THEN ncalls = 0 /\ ncalls' = 1
    ELSE ncalls < MaxCalls /\ ncalls' = ncalls + 1

\* Entry of every call: arguments in loc and, where calls do not overlap (so
\* that the difference to the state at return is the call's own effect), a
\* snapshot of the shared state.
Enter(m, t, l) ==
    /\ loc' = [loc EXCEPT ![t] = l]
    /\ pre' = [pre EXCEPT ![t] = IF m \in {"seq", "pix"} THEN Snapshot ELSE NoPre]
    /\ log' = [log EXCEPT ![t] = <<>>]

\* A dereference of freed memory or a double free: the behaviour from here on
\* is undefined and is not explored further.
UBStep(t) ==
    /\ ub' = TRUE
    /\ Goto(t, "ub")
    /\ UNCHANGED <<vt, bus_ctx, heap, live, registered, pinMode, pinLevel, cur,
                   loc, log, ret, pre, prev, ncalls, fb, lock, snaps>>

\* ---- GPIO helpers ----
ConfOutputEvents(pin, level) ==
    IF pin = GPIO_NUM_NC THEN <<>>
    ELSE << Ev("gpio_config", pin, 0, 0, 0, "output"),
            Ev("gpio_set_level", pin, level, 0, 0, "") >>

gpio_conf_output(t, pin, level) ==
    /\ pinMode' = IF pin = GPIO_NUM_NC THEN pinMode
                  ELSE [pinMode EXCEPT ![pin] = "output"]
    /\ pinLevel' = IF pin = GPIO_NUM_NC THEN pinLevel
                   ELSE [pinLevel EXCEPT ![pin] = level]
    /\ Emit(t, ConfOutputEvents(pin, level))

ConfDisableEvents(pin) ==
    IF pin = GPIO_NUM_NC THEN <<>>
    ELSE << Ev("gpio_config", pin, 0, 0, 0, "disabled") >>

gpio_conf_disable(t, pin) ==
    /\ pinMode' = IF pin = GPIO_NUM_NC THEN pinMode
                  ELSE [pinMode EXCEPT ![pin] = "disabled"]
    /\ UNCHANGED pinLevel
    /\ Emit(t, ConfDisableEvents(pin))

\* gpio_set_level(pin, level) followed by vTaskDelay(pdMS_TO_TICKS(ms))
SetLevelDelay(t, pin, level, ms) ==
    /\ pinLevel' = [pinLevel EXCEPT ![pin] = level]
    /\ Emit(t, << Ev("gpio_set_level", pin, level, 0, 0, ""),
                  Ev("delay", ms, 0, 0, 0, "") >>)
    /\ UNCHANGED pinMode

\* ---- the SPI master driver, as the backend uses it ----
\* spi_bus_remove_device refuses a device that has a transaction in flight.
RemoveResult(dev) ==
    IF cur.dev = dev THEN "ESP_ERR_INVALID_STATE" ELSE "ESP_OK"

spi_bus_remove_device(t, dev) ==
    /\ registered' = IF RemoveResult(dev) = "ESP_OK" THEN registered \ {dev}
                     ELSE registered
    /\ Emit(t, << Ev("spi_bus_remove_device", dev, 0, 0, 0, RemoveResult(dev)) >>)

\* ---- ssd1306_bind_spi ----
\* Mutant: the D/C pin is not required.
BindArgCheck_NoPin(d, dc_gpio) ==
    IF ~d THEN "ESP_ERR_INVALID_ARG" ELSE "ESP_OK"

BindArgCheck(d, dc_gpio) ==
    IF ~d THEN "ESP_ERR_INVALID_ARG"
    ELSE IF dc_gpio = GPIO_NUM_NC THEN "ESP_ERR_INVALID_ARG"
    ELSE "ESP_OK"

BindClk(clk_hz) == IF clk_hz <= 0 THEN DEFAULT_CLK_HZ ELSE clk_hz

BindCall(m, t) ==
    /\ At(t, "idle")
    /\ MayStart(m, t, "bind")
    /\ \E d \in BOOLEAN, dc \in {GPIO_NUM_NC, DC_PIN},
          rst \in {GPIO_NUM_NC, RST_PIN}, clk \in {0, DEFAULT_CLK_HZ} :
          /\ Enter(m, t, [NoLoc EXCEPT !.op = "bind", !.d = d, !.dc_gpio = dc,
                                    !.rst_gpio = rst, !.clk_hz = BindClk(clk)])
          /\ SetRet(t, BindArgCheck(d, dc))
          /\ Goto(t, IF BindArgCheck(d, dc) = "ESP_OK" THEN "b_pin_dc" ELSE "done")
    /\ UNCHANGED <<vt, bus_ctx, heap, live, registered, pinMode, pinLevel, cur,
                   ub, prev>>
    /\ Budget(m)
    /\ UNCHANGED <<fb, lock, snaps>>

BindPinDc(t) ==
    /\ At(t, "b_pin_dc")
    /\ gpio_conf_output(t, loc[t].dc_gpio, 0)
    /\ Goto(t, "b_pin_rst")
    /\ UNCHANGED <<vt, bus_ctx, heap, live, registered, cur, ub, loc, ret, pre, prev, ncalls, fb, lock, snaps>>

BindPinRst(t) ==
    /\ At(t, "b_pin_rst")
    /\ gpio_conf_output(t, loc[t].rst_gpio, 1)
    /\ Goto(t, "b_add")
    /\ UNCHANGED <<vt, bus_ctx, heap, live, registered, cur, ub, loc, ret, pre, prev, ncalls, fb, lock, snaps>>

\* spi_bus_add_device: the bus has MaxDev slots; it may also fail otherwise.
BindAddOk(t) ==
    /\ At(t, "b_add")
    /\ registered # DevIds
    /\ LET dev == Min(DevIds \ registered) IN
          /\ registered' = registered \cup {dev}
          /\ loc' = [loc EXCEPT ![t].dev = dev]
          /\ Emit(t, << Ev("spi_bus_add_device", dev, 0, 0, 0, "ESP_OK") >>)
    /\ Goto(t, "b_alloc")
    /\ UNCHANGED <<vt, bus_ctx, heap, live, pinMode, pinLevel, cur, ub, ret, pre, prev, ncalls, fb, lock, snaps>>

BindAddFail(t) ==
    /\ At(t, "b_add")
    /\ \E e \in AddErrs :
          /\ Emit(t, << Ev("spi_bus_add_device", NULL, 0, 0, 0, e) >>)
          /\ SetRet(t, e)
    /\ Goto(t, "done")
    /\ UNCHANGED <<vt, bus_ctx, heap, live, registered, pinMode, pinLevel, cur,
                   ub, loc, pre, prev, ncalls, fb, lock, snaps>>

\* Mutant: the handle is published without the reset pulse.
AfterAlloc_NoPulse(rst_gpio) == "b_pub_vt"

\* calloc succeeds: the context is zeroed and its five fields are filled.
AfterAlloc(rst_gpio) == IF rst_gpio # GPIO_NUM_NC THEN "b_rst1" ELSE "b_pub_vt"

BindAllocOk(t) ==
    /\ At(t, "b_alloc")
    /\ live # CtxAddrs
    /\ LET c == Min(CtxAddrs \ live) IN
          /\ live' = live \cup {c}
          /\ heap' = [heap EXCEPT ![c] = [dev |-> loc[t].dev, host |-> 1,
                                          dc_gpio |-> loc[t].dc_gpio,
                                          rst_gpio |-> loc[t].rst_gpio,
                                          clk_hz |-> loc[t].clk_hz]]
          /\ loc' = [loc EXCEPT ![t].ctx = c]
          /\ Emit(t, << Ev("calloc", c, 0, 0, 0, "") >>)
    /\ Goto(t, AfterAlloc(loc[t].rst_gpio))
    /\ UNCHANGED <<vt, bus_ctx, registered, pinMode, pinLevel, cur, ub, ret, pre, prev, ncalls, fb, lock, snaps>>

BindAllocFail(t) ==
    /\ At(t, "b_alloc")
    /\ Emit(t, << Ev("calloc", NULL, 0, 0, 0, "") >>)
    /\ Goto(t, "b_rollback")
    /\ UNCHANGED <<vt, bus_ctx, heap, live, registered, pinMode, pinLevel, cur,
                   ub, loc, ret, pre, prev, ncalls, fb, lock, snaps>>

\* Mutant: the allocation-failure path returns without deregistering.
BindRollback_NoRemove(t) ==
    /\ At(t, "b_rollback")
    /\ SetRet(t, "ESP_ERR_NO_MEM")
    /\ Goto(t, "done")
    /\ UNCHANGED <<vt, bus_ctx, heap, live, registered, pinMode, pinLevel, cur,
                   ub, loc, log, pre, prev, ncalls, fb, lock, snaps>>

BindRollback(t) ==
    /\ At(t, "b_rollback")
    /\ spi_bus_remove_device(t, loc[t].dev)
    /\ SetRet(t, "ESP_ERR_NO_MEM")
    /\ Goto(t, "done")
    /\ UNCHANGED <<vt, bus_ctx, heap, live, pinMode, pinLevel, cur, ub, loc, pre, prev, ncalls, fb, lock, snaps>>

BindRst1(t) ==
    /\ At(t, "b_rst1")
    /\ SetLevelDelay(t, loc[t].rst_gpio, 1, 1)
    /\ Goto(t, "b_rst2")
    /\ UNCHANGED <<vt, bus_ctx, heap, live, registered, cur, ub, loc, ret, pre, prev, ncalls, fb, lock, snaps>>

BindRst2(t) ==
    /\ At(t, "b_rst2")
    /\ SetLevelDelay(t, loc[t].rst_gpio, 0, 1)
    /\ Goto(t, "b_rst3")
    /\ UNCHANGED <<vt, bus_ctx, heap, live, registered, cur, ub, loc, ret, pre, prev, ncalls, fb, lock, snaps>>

BindRst3(t) ==
    /\ At(t, "b_rst3")
    /\ SetLevelDelay(t, loc[t].rst_gpio, 1, 5)
    /\ Goto(t, "b_pub_vt")
    /\ UNCHANGED <<vt, bus_ctx, heap, live, registered, cur, ub, loc, ret, pre, prev, ncalls, fb, lock, snaps>>

\* Mutant: bind publishes the context but never stores the vtable pointer.
BindPubVt_Skip(t) ==
    /\ At(t, "b_pub_vt")
    /\ Goto(t, "b_pub_ctx")
    /\ UNCHANGED <<vt, bus_ctx, heap, live, registered, pinMode, pinLevel, cur, ub,
                   loc, log, ret, pre, prev, ncalls, fb, lock, snaps>>

BindPubVt(t) ==
    /\ At(t, "b_pub_vt")
    /\ vt' = VT_SPI
    /\ Goto(t, "b_pub_ctx")
    /\ UNCHANGED <<bus_ctx, heap, live, registered, pinMode, pinLevel, cur, ub,
                   loc, log, ret, pre, prev, ncalls, fb, lock, snaps>>

BindPubCtx(t) ==
    /\ At(t, "b_pub_ctx")
    /\ bus_ctx' = loc[t].ctx
    /\ SetRet(t, "ESP_OK")
    /\ Goto(t, "done")
    /\ UNCHANGED <<vt, heap, live, registered, pinMode, pinLevel, cur, ub,
                   loc, log, pre, prev, ncalls, fb, lock, snaps>>

\* ---- ssd1306_unbind_spi ----
\* Mutant: the handle pointer itself is not checked.
UnbindIsNoop_NoHandleCheck(d) == bus_ctx = NULL

UnbindIsNoop(d) == ~d \/ bus_ctx = NULL

UnbindCall(m, t) ==
    /\ At(t, "idle")
    /\ MayStart(m, t, "unbind")
    /\ \E d \in BOOLEAN :
          /\ Enter(m, t, [NoLoc EXCEPT !.op = "unbind", !.d = d,
                                    !.ctx = IF UnbindIsNoop(d) THEN NULL ELSE bus_ctx])
          /\ Goto(t, IF UnbindIsNoop(d) THEN "done" ELSE "u_remove")
    /\ SetRet(t, "ESP_OK")
    /\ UNCHANGED <<vt, bus_ctx, heap, live, registered, pinMode, pinLevel, cur,
                   ub, prev>>
    /\ Budget(m)
    /\ UNCHANGED <<fb, lock, snaps>>

\* if (ctx->dev) { e = spi_bus_remove_device(ctx->dev); ...; ctx->dev = NULL; }
\* Mutant: the result of spi_bus_remove_device is dropped.
UnbindRet_Dropped(e, r) == r

UnbindRet(e, r) == IF e # "ESP_OK" THEN e ELSE r

\* Mutant: unbind forgets the device and never calls spi_bus_remove_device.
UnbindRemove_NoCall(t) ==
    /\ At(t, "u_remove")
    /\ loc[t].ctx \in live
    /\ heap' = [heap EXCEPT ![loc[t].ctx].dev = NULL]
    /\ Goto(t, "u_pin_dc")
    /\ UNCHANGED <<vt, bus_ctx, live, registered, pinMode, pinLevel, cur, ub,
                   loc, log, ret, pre, prev, ncalls, fb, lock, snaps>>

UnbindRemove(t) ==
    /\ At(t, "u_remove")
    /\ loc[t].ctx \in live
    /\ LET c == loc[t].ctx IN
          IF heap[c].dev # NULL
          THEN /\ heap[c].dev \in registered
               /\ spi_bus_remove_device(t, heap[c].dev)
               /\ SetRet(t, UnbindRet(RemoveResult(heap[c].dev), ret[t]))
               /\ heap' = [heap EXCEPT ![c].dev = NULL]
          ELSE UNCHANGED <<registered, log, ret, heap>>
    /\ Goto(t, "u_pin_dc")
    /\ UNCHANGED <<vt, bus_ctx, live, pinMode, pinLevel, cur, ub, loc, pre, prev, ncalls, fb, lock, snaps>>

UnbindPinDc(t) ==
    /\ At(t, "u_pin_dc")
    /\ loc[t].ctx \in live
    /\ gpio_conf_disable(t, heap[loc[t].ctx].dc_gpio)
    /\ Goto(t, "u_pin_rst")
    /\ UNCHANGED <<vt, bus_ctx, heap, live, registered, cur, ub, loc, ret, pre, prev, ncalls, fb, lock, snaps>>

UnbindPinRst(t) ==
    /\ At(t, "u_pin_rst")
    /\ loc[t].ctx \in live
    /\ gpio_conf_disable(t, heap[loc[t].ctx].rst_gpio)
    /\ Goto(t, "u_free")
    /\ UNCHANGED <<vt, bus_ctx, heap, live, registered, cur, ub, loc, ret, pre, prev, ncalls, fb, lock, snaps>>

UnbindFree(t) ==
    /\ At(t, "u_free")
    /\ loc[t].ctx \in live
    /\ live' = live \ {loc[t].ctx}
    /\ heap' = [heap EXCEPT ![loc[t].ctx] = ZeroCtx]
    /\ Emit(t, << Ev("free", loc[t].ctx, 0, 0, 0, "") >>)
    /\ Goto(t, "u_clr_ctx")
    /\ UNCHANGED <<vt, bus_ctx, registered, pinMode, pinLevel, cur, ub,
                   loc, ret, pre, prev, ncalls, fb, lock, snaps>>

UnbindClrCtx(t) ==
    /\ At(t, "u_clr_ctx")
    /\ bus_ctx' = NULL
    /\ Goto(t, "u_clr_vt")
    /\ UNCHANGED <<vt, heap, live, registered, pinMode, pinLevel, cur, ub,
                   loc, log, ret, pre, prev, ncalls, fb, lock, snaps>>

UnbindClrVt(t) ==
    /\ At(t, "u_clr_vt")
    /\ vt' = NULL
    /\ Goto(t, "done")
    /\ UNCHANGED <<bus_ctx, heap, live, registered, pinMode, pinLevel, cur, ub,
                   loc, log, ret, pre, prev, ncalls, fb, lock, snaps>>

\* Unbind touches a context another thread has freed, or a device another
\* thread has removed.
UnbindUB(t) ==
    /\ \/ /\ pc[t] \in {"u_remove", "u_pin_dc", "u_pin_rst", "u_free"}
          /\ loc[t].ctx \notin live
       \/ /\ pc[t] = "u_remove"
          /\ loc[t].ctx \in live
          /\ heap[loc[t].ctx].dev # NULL
          /\ heap[loc[t].ctx].dev \notin registered
    /\ ~ub
    /\ UBStep(t)

\* ---- D/C handling via the pre-transfer callback ----
\* Mutant: the D/C bit is not packed into the transaction value.
pack_user_NoBit(c, dc_bit) == c

\* (uintptr_t)c | (uintptr_t)(dc_bit & 1)
pack_user(c, dc_bit) == IF c % 2 = 1 THEN c ELSE c + (dc_bit % 2)
\* (uintptr_t)u & ~(uintptr_t)1
unpack_ctx(u) == u - (u % 2)
\* Mutant: the indicator is read from bit 1 instead of bit 0.
unpack_dc_WrongBit(u) == (u \div 2) % 2

\* (uintptr_t)u & 1
unpack_dc(u) == u % 2

\* Level the pre-transfer callback leaves on the pins for transaction value u.
spi_pre_cb_set_dc(u) ==
    IF heap[unpack_ctx(u)].dc_gpio # GPIO_NUM_NC
    THEN [pinLevel EXCEPT ![heap[unpack_ctx(u)].dc_gpio] = unpack_dc(u)]
    ELSE pinLevel

\* The level of the display's data/command input.
DcLine == pinLevel[DC_PIN]

\* ---- vtable methods spi_send_cmd / spi_send_data ----
SendMax(op) == IF op = "send_cmd" THEN CMD_MAX ELSE DATA_MAX
SendDc(op) == IF op = "send_cmd" THEN 0 ELSE 1
\* Payload lengths tried: around every multiple of MAX up to MaxChunks * MAX
\* where calls do not overlap; empty and the longest where they do.
Lens(m, max) ==
    IF m = "seq" THEN {0} \cup {k * max + e : k \in 0..MaxChunks, e \in {0, 1}}
    ELSE {0, MaxChunks * max + 1}
\* Mutant: the buffer pointer is not checked.
SendIsNoop_NoBufCheck(ctx, buf, n) == ctx = NULL \/ n = 0

SendIsNoop(ctx, buf, n) == ctx = NULL \/ ~buf \/ n = 0
\* while (off < n)
LoopCond(off, n) == off < n
\* Mutant: every transaction carries MAX bytes, the last one too.
Blk_NoClamp(n, off, max) == max

Blk(n, off, max) == IF n - off > max THEN max ELSE n - off
\* Mutant: a failed transfer is reported as a generic failure.
ReturnOnError_Generic(e) == "ESP_FAIL"

\* ESP_RETURN_ON_ERROR hands the callee's error code to the caller.
ReturnOnError(e) == e

SendCall(m, t) ==
    /\ At(t, "idle")
    /\ \E op \in {"send_cmd", "send_data"} :
          /\ MayStart(m, t, op)
          /\ \E ctx \in {NULL, bus_ctx}, buf \in BOOLEAN, n \in Lens(m, SendMax(op)) :
                /\ Enter(m, t, [NoLoc EXCEPT !.op = op, !.ctx = ctx, !.buf = buf,
                                          !.n = n, !.dcbit = SendDc(op)])
                /\ Goto(t, IF SendIsNoop(ctx, buf, n) \/ ~LoopCond(0, n)
                           THEN "done" ELSE "s_begin")
    /\ SetRet(t, "ESP_OK")
    /\ UNCHANGED <<vt, bus_ctx, heap, live, registered, pinMode, pinLevel, cur,
                   ub, prev>>
    /\ Budget(m)
    /\ UNCHANGED <<fb, lock, snaps>>

\* One loop iteration up to the moment the transfer starts: the transaction
\* is built, spi_device_polling_transmit takes the bus and runs the
\* pre-transfer callback.
SendBegin(t) ==
    /\ At(t, "s_begin")
    /\ loc[t].ctx \in live
    /\ heap[loc[t].ctx].dev \in registered
    /\ cur = NoTrans
    /\ LET blk == Blk(loc[t].n, loc[t].off, SendMax(loc[t].op))
           user == pack_user(loc[t].ctx, loc[t].dcbit)
       IN /\ unpack_ctx(user) \in live
          /\ loc' = [loc EXCEPT ![t].blk = blk, ![t].user = user]
          /\ cur' = [owner |-> t, dev |-> heap[loc[t].ctx].dev]
          /\ pinLevel' = spi_pre_cb_set_dc(user)
          /\ Emit(t, IF heap[unpack_ctx(user)].dc_gpio # GPIO_NUM_NC
                     THEN << Ev("gpio_set_level", heap[unpack_ctx(user)].dc_gpio,
                                unpack_dc(user), 0, 0, "") >>
                     ELSE <<>>)
    /\ Goto(t, "s_wire")
    /\ UNCHANGED <<vt, bus_ctx, heap, live, registered, pinMode, ub, ret, pre, prev, ncalls, fb, lock, snaps>>

\* spi_device_polling_transmit fails: nothing is transferred and the error
\* is returned from the send.
SendFail(t) ==
    /\ At(t, "s_begin")
    /\ loc[t].ctx \in live
    /\ \E e \in XferErrs :
          /\ Emit(t, << Ev("xfer_fail", 0, loc[t].dcbit, loc[t].off,
                           Blk(loc[t].n, loc[t].off, SendMax(loc[t].op)), e) >>)
          /\ SetRet(t, ReturnOnError(e))
    /\ Goto(t, "done")
    /\ UNCHANGED <<vt, bus_ctx, heap, live, registered, pinMode, pinLevel, cur,
                   ub, loc, pre, prev, ncalls, fb, lock, snaps>>

\* The bytes of the transaction go out with the D/C line as it is now; the
\* transaction completes, off += blk, and the loop continues or returns.
SendWire(t) ==
    /\ At(t, "s_wire")
    /\ cur.owner = t
    /\ Emit(t, << Ev("xfer", DcLine, unpack_dc(loc[t].user), loc[t].off,
                     loc[t].blk, "ESP_OK") >>)
    /\ cur' = NoTrans
    /\ loc' = [loc EXCEPT ![t].off = @ + loc[t].blk]
    /\ Goto(t, IF LoopCond(loc[t].off + loc[t].blk, loc[t].n)
               THEN "s_begin" ELSE "done")
    /\ UNCHANGED <<vt, bus_ctx, heap, live, registered, pinMode, pinLevel, ub,
                   ret, pre, prev, ncalls, fb, lock, snaps>>

\* The send reads a context that was freed, or uses a removed device.
SendUB(t) ==
    /\ At(t, "s_begin")
    /\ \/ loc[t].ctx \notin live
       \/ /\ loc[t].ctx \in live
          /\ heap[loc[t].ctx].dev \notin registered
    /\ UBStep(t)

\* ---- vtable method spi_reset ----
ResetCall(m, t) ==
    /\ At(t, "idle")
    /\ MayStart(m, t, "reset")
    /\ \E ctx \in {NULL, bus_ctx} :
          /\ Enter(m, t, [NoLoc EXCEPT !.op = "reset", !.ctx = ctx])
          /\ Goto(t, IF ctx = NULL THEN "done" ELSE "r_check")
    /\ SetRet(t, "ESP_OK")
    /\ UNCHANGED <<vt, bus_ctx, heap, live, registered, pinMode, pinLevel, cur,
                   ub, prev>>
    /\ Budget(m)
    /\ UNCHANGED <<fb, lock, snaps>>

ResetCheck(t) ==
    /\ At(t, "r_check")
    /\ loc[t].ctx \in live
    /\ loc' = [loc EXCEPT ![t].rst_gpio = heap[loc[t].ctx].rst_gpio]
    /\ Goto(t, IF heap[loc[t].ctx].rst_gpio = GPIO_NUM_NC THEN "done" ELSE "r_low")
    /\ UNCHANGED <<vt, bus_ctx, heap, live, registered, pinMode, pinLevel, cur,
                   ub, log, ret, pre, prev, ncalls, fb, lock, snaps>>

ResetLow(t) ==
    /\ At(t, "r_low")
    /\ SetLevelDelay(t, loc[t].rst_gpio, 0, 10)
    /\ Goto(t, "r_high")
    /\ UNCHANGED <<vt, bus_ctx, heap, live, registered, cur, ub, loc, ret, pre, prev, ncalls, fb, lock, snaps>>

\* Mutant: the reset line is never released.
ResetHigh_StaysLow(t) ==
    /\ At(t, "r_high")
    /\ SetLevelDelay(t, loc[t].rst_gpio, 0, 10)
    /\ Goto(t, "done")
    /\ UNCHANGED <<vt, bus_ctx, heap, live, registered, cur, ub, loc, ret, pre,
                   prev, ncalls, fb, lock, snaps>>

ResetHigh(t) ==
    /\ At(t, "r_high")
    /\ SetLevelDelay(t, loc[t].rst_gpio, 1, 10)
    /\ Goto(t, "done")
    /\ UNCHANGED <<vt, bus_ctx, heap, live, registered, cur, ub, loc, ret, pre, prev, ncalls, fb, lock, snaps>>

ResetUB(t) ==
    /\ At(t, "r_check")
    /\ loc[t].ctx \notin live
    /\ UBStep(t)

\* ======================================================================
\* Framebuffer core of the device handle: drawing primitives and display()
\* ======================================================================
\* Every operation on the framebuffer takes the handle's lock on entry and
\* holds it until it returns.
\* Mutant: the lock is taken without waiting for its holder.
LockTake_NoWait(t) == lock' = t

LockTake(t) == lock = 0 /\ lock' = t

FbLock(t) ==
    /\ At(t, "f_lock")
    /\ LockTake(t)
    /\ Goto(t, "f_body")
    /\ UNCHANGED <<vt, bus_ctx, heap, live, registered, pinMode, pinLevel, cur, ub,
                   loc, log, ret, pre, prev, ncalls, fb, snaps>>

\* The lock is released on every exit path; a drawing call that returns has
\* been applied in full.
FbUnlock(t) ==
    /\ At(t, "f_unlock")
    /\ lock' = 0
    /\ snaps' = IF IsDrawOp(loc[t].op) THEN snaps \cup {fb} ELSE snaps
    /\ Goto(t, "done")
    /\ UNCHANGED <<vt, bus_ctx, heap, live, registered, pinMode, pinLevel, cur, ub,
                   loc, log, ret, pre, prev, ncalls, fb>>

\* ---- draw_pixel ----
InRange(x, y) == x >= 0 /\ x < FbWidth /\ y >= 0 /\ y < FbHeight

\* Mutant: the page of the pixel is left out of the byte index.
PixelIndex_NoPage(x, y) == x

PixelIndex(x, y) == x + (y \div 8) * FbWidth
PixelBit(y) == y % 8
Bit(b, k) == (b \div (2 ^ k)) % 2
SetBit(b, k, on) ==
    IF on THEN (IF Bit(b, k) = 1 THEN b ELSE b + 2 ^ k)
    ELSE (IF Bit(b, k) = 1 THEN b - 2 ^ k ELSE b)
PutPixel(f, x, y, on) ==
    [f EXCEPT ![PixelIndex(x, y) + 1] = SetBit(@, PixelBit(y), on)]

\* Coordinates the callers pass: every pixel and the positions just outside
\* the display for a single call, the corners and one position outside where
\* calls overlap.
Coords(m) ==
    IF m = "pix" THEN (-1 .. FbWidth) \X (-1 .. FbHeight)
    ELSE {<<0, 0>>, <<FbWidth - 1, FbHeight - 1>>, <<FbWidth, 0>>}

DrawPixelCall(m, t) ==
    /\ At(t, "idle")
    /\ MayStart(m, t, "draw_pixel")
    /\ \E c \in Coords(m), on \in BOOLEAN :
          Enter(m, t, [NoLoc EXCEPT !.op = "draw_pixel", !.d = TRUE,
                                    !.x = c[1], !.y = c[2], !.on = on])
    /\ Goto(t, "f_lock")
    /\ SetRet(t, "ESP_OK")
    /\ UNCHANGED <<vt, bus_ctx, heap, live, registered, pinMode, pinLevel, cur,
                   ub, prev, fb, lock, snaps>>
    /\ Budget(m)

PixelBody(t) ==
    /\ At(t, "f_body")
    /\ loc[t].op = "draw_pixel"
    /\ IF InRange(loc[t].x, loc[t].y)
       THEN /\ fb' = PutPixel(fb, loc[t].x, loc[t].y, loc[t].on)
            /\ UNCHANGED ret
       ELSE /\ SetRet(t, "ESP_ERR_INVALID_ARG")
            /\ UNCHANGED fb
    /\ Goto(t, "f_unlock")
    /\ UNCHANGED <<vt, bus_ctx, heap, live, registered, pinMode, pinLevel, cur, ub,
                   loc, log, pre, prev, ncalls, lock, snaps>>

\* ---- draw_rect, filled: one pixel of the bounding box per step, clipped ----
DrawRectCall(m, t) ==
    /\ At(t, "idle")
    /\ MayStart(m, t, "draw_rect")
    /\ \E y \in {0, FbHeight - 1} :
          Enter(m, t, [NoLoc EXCEPT !.op = "draw_rect", !.d = TRUE, !.x = 0,
                                    !.y = y, !.w = FbWidth, !.h = 1, !.on = TRUE])
    /\ Goto(t, "f_lock")
    /\ SetRet(t, "ESP_OK")
    /\ UNCHANGED <<vt, bus_ctx, heap, live, registered, pinMode, pinLevel, cur,
                   ub, prev, fb, lock, snaps>>
    /\ Budget(m)

RectBody(t) ==
    /\ At(t, "f_body")
    /\ loc[t].op = "draw_rect"
    /\ LET px == loc[t].x + (loc[t].off % loc[t].w)
           py == loc[t].y + (loc[t].off \div loc[t].w)
       IN fb' = IF InRange(px, py) THEN PutPixel(fb, px, py, loc[t].on) ELSE fb
    /\ loc' = [loc EXCEPT ![t].off = @ + 1]
    /\ Goto(t, IF loc[t].off + 1 < loc[t].w * loc[t].h THEN "f_body" ELSE "f_unlock")
    /\ UNCHANGED <<vt, bus_ctx, heap, live, registered, pinMode, pinLevel, cur, ub,
                   log, ret, pre, prev, ncalls, lock, snaps>>

\* ---- display (flush) ----
\* Mutant: display does not look at the transport.
DispBound_Unchecked == TRUE

DispBound == vt # NULL /\ bus_ctx # NULL

DisplayCall(m, t) ==
    /\ At(t, "idle")
    /\ MayStart(m, t, "display")
    /\ Enter(m, t, [NoLoc EXCEPT !.op = "display", !.d = TRUE])
    /\ Goto(t, "f_lock")
    /\ SetRet(t, "ESP_OK")
    /\ UNCHANGED <<vt, bus_ctx, heap, live, registered, pinMode, pinLevel, cur,
                   ub, prev, fb, lock, snaps>>
    /\ Budget(m)

DispCheck(t) ==
    /\ At(t, "f_body")
    /\ loc[t].op = "display"
    /\ IF DispBound
       THEN Goto(t, "d_cmd") /\ UNCHANGED ret
       ELSE Goto(t, "f_unlock") /\ SetRet(t, "NOT_BOUND")
    /\ UNCHANGED <<vt, bus_ctx, heap, live, registered, pinMode, pinLevel, cur, ub,
                   loc, log, pre, prev, ncalls, fb, lock, snaps>>

\* The page-addressing command sequence goes through the transport's
\* send_command; a transport failure ends the flush.
DispCmd(t) ==
    /\ At(t, "d_cmd")
    /\ \E r \in {"ESP_OK", "ESP_ERR_TIMEOUT"} :
          /\ Emit(t, << Ev("send_cmd", bus_ctx, 0, 0, 0, r) >>)
          /\ SetRet(t, r)
          /\ Goto(t, IF r = "ESP_OK" THEN "d_data" ELSE "f_unlock")
    /\ UNCHANGED <<vt, bus_ctx, heap, live, registered, pinMode, pinLevel, cur, ub,
                   loc, pre, prev, ncalls, fb, lock, snaps>>

\* The framebuffer goes through the transport's send_data, one page per
\* chunk; the bytes of a chunk are read when the chunk is transmitted.
PageBytes(f, page) == SubSeq(f, page * FbWidth + 1, (page + 1) * FbWidth)

DispData(t) ==
    /\ At(t, "d_data")
    /\ \E r \in {"ESP_OK", "ESP_ERR_TIMEOUT"} :
          /\ Emit(t, << Ev("send_data", bus_ctx, 0, loc[t].off * FbWidth, FbWidth, r) >>)
          /\ SetRet(t, r)
          /\ loc' = [loc EXCEPT ![t].off = IF r = "ESP_OK" THEN @ + 1 ELSE @,
                                ![t].sent = IF r = "ESP_OK"
                                            THEN @ \o PageBytes(fb, loc[t].off)
                                            ELSE @]
          /\ Goto(t, IF r = "ESP_OK" /\ loc[t].off + 1 < FbPages
                     THEN "d_data" ELSE "f_unlock")
    /\ UNCHANGED <<vt, bus_ctx, heap, live, registered, pinMode, pinLevel, cur, ub,
                   pre, prev, ncalls, fb, lock, snaps>>

\* ---- the call returns to its caller ----
Return(t) ==
    /\ At(t, "done")
    /\ prev' = IF loc[t].op = "bind" /\ ret[t] = "ESP_OK"
               THEN [op |-> "bind_ok", regBefore |-> pre[t].registered,
                     dev |-> loc[t].dev]
               ELSE [NoPrev EXCEPT !.op = "other"]
    /\ Goto(t, "idle")
    /\ loc' = [loc EXCEPT ![t] = NoLoc]
    /\ log' = [log EXCEPT ![t] = <<>>]
    /\ ret' = [ret EXCEPT ![t] = "ESP_OK"]
    /\ pre' = [pre EXCEPT ![t] = NoPre]
    /\ UNCHANGED <<vt, bus_ctx, heap, live, registered, pinMode, pinLevel, cur, ub,
                   ncalls, fb, lock, snaps>>

BindSteps(t) ==
    \/ BindPinDc(t) \/ BindPinRst(t) \/ BindAddOk(t) \/ BindAddFail(t)
    \/ BindAllocOk(t) \/ BindAllocFail(t) \/ BindRollback(t)
    \/ BindRst1(t) \/ BindRst2(t) \/ BindRst3(t) \/ BindPubVt(t) \/ BindPubCtx(t)

UnbindSteps(t) ==
    \/ UnbindRemove(t) \/ UnbindPinDc(t) \/ UnbindPinRst(t) \/ UnbindFree(t)
    \/ UnbindClrCtx(t) \/ UnbindClrVt(t)

Step(t) ==
    \/ BindSteps(t)
    \/ UnbindSteps(t)
    \/ SendBegin(t) \/ SendFail(t) \/ SendWire(t)
    \/ ResetCheck(t) \/ ResetLow(t) \/ ResetHigh(t)
    \/ Return(t)

Call(m, t) == BindCall(m, t) \/ UnbindCall(m, t) \/ SendCall(m, t) \/ ResetCall(m, t)

Race(t) == UnbindUB(t) \/ SendUB(t) \/ ResetUB(t)

\* One call at a time on the handle.
Next == \E t \in Threads : Call("seq", t) \/ Step(t)
Spec == Init /\ [][Next]_vars

\* Send calls of different threads overlap.
NextSend == \E t \in Threads : Call("send", t) \/ Step(t)
SpecSend == Init /\ [][NextSend]_vars

\* An unbind overlaps send calls of the other threads.
NextUnb == \E t \in Threads : Call("unb", t) \/ Step(t) \/ SendUB(t)
SpecUnb == Init /\ [][NextUnb]_vars

\* Any calls of different threads overlap.
NextConc == \E t \in Threads : Call("conc", t) \/ Step(t) \/ Race(t)
SpecConc == Init /\ [][NextConc]_vars

\* display() on a handle that is bound and unbound, one call at a time.
DispSteps(t) == FbLock(t) \/ DispCheck(t) \/ DispCmd(t) \/ DispData(t) \/ FbUnlock(t)

NextDisp ==
    \E t \in Threads :
        \/ BindCall("seq", t) \/ UnbindCall("seq", t) \/ DisplayCall("seq", t)
        \/ BindSteps(t) \/ UnbindSteps(t) \/ DispSteps(t) \/ Return(t)
SpecDisp == Init /\ [][NextDisp]_vars

\* Drawing calls and display() of different threads overlap on a bound
\* handle: the state after ssd1306_bind_spi(d, host, cs, DC_PIN, GPIO_NUM_NC, 0)
\* has returned ESP_OK on a new handle.
InitDraw ==
    /\ vt = VT_SPI
    /\ bus_ctx = Min(CtxAddrs)
    /\ heap = [c \in CtxAddrs |->
                  IF c = Min(CtxAddrs)
                  THEN [dev |-> Min(DevIds), host |-> 1, dc_gpio |-> DC_PIN,
                        rst_gpio |-> GPIO_NUM_NC, clk_hz |-> DEFAULT_CLK_HZ]
                  ELSE ZeroCtx]
    /\ live = {Min(CtxAddrs)}
    /\ registered = {Min(DevIds)}
    /\ pinMode = [p \in Pins |-> IF p = DC_PIN THEN "output" ELSE "disabled"]
    /\ pinLevel = [p \in Pins |-> 0]
    /\ cur = NoTrans
    /\ ub = FALSE
    /\ pc = [t \in Threads |-> "idle"]
    /\ loc = [t \in Threads |-> NoLoc]
    /\ log = [t \in Threads |-> <<>>]
    /\ ret = [t \in Threads |-> "ESP_OK"]
    /\ pre = [t \in Threads |-> NoPre]
    /\ prev = [op |-> "bind_ok", regBefore |-> {}, dev |-> Min(DevIds)]
    /\ ncalls = 0
    /\ fb = ZeroFb
    /\ lock = 0
    /\ snaps = {ZeroFb}

NextDraw ==
    \E t \in Threads :
        \/ DrawPixelCall("draw", t) \/ DrawRectCall("draw", t) \/ DisplayCall("draw", t)
        \/ PixelBody(t) \/ RectBody(t) \/ DispSteps(t) \/ Return(t)
SpecDraw == InitDraw /\ [][NextDraw]_vars

\* A single draw_pixel call on a framebuffer with arbitrary contents.
FbSamples == {[i \in 1..FbLen |-> v] : v \in {0, 255}}
                 \cup {[i \in 1..FbLen |-> IF i % 2 = 1 THEN 165 ELSE 90]}

InitPix ==
    /\ vt = NULL
    /\ bus_ctx = NULL
    /\ heap = [c \in CtxAddrs |-> ZeroCtx]
    /\ live = {}
    /\ registered = {}
    /\ pinMode = [p \in Pins |-> "disabled"]
    /\ pinLevel = [p \in Pins |-> 0]
    /\ cur = NoTrans
    /\ ub = FALSE
    /\ pc = [t \in Threads |-> "idle"]
    /\ loc = [t \in Threads |-> NoLoc]
    /\ log = [t \in Threads |-> <<>>]
    /\ ret = [t \in Threads |-> "ESP_OK"]
    /\ pre = [t \in Threads |-> NoPre]
    /\ prev = NoPrev
    /\ ncalls = 0
    /\ fb \in FbSamples
    /\ lock = 0
    /\ snaps = {fb}

NextPix ==
    \E t \in Threads :
        DrawPixelCall("pix", t) \/ FbLock(t) \/ PixelBody(t) \/ FbUnlock(t) \/ Return(t)
SpecPix == InitPix /\ [][NextPix]_vars

\* ======================================================================
\* Properties
\* ======================================================================
InCall(t) == pc[t] \notin {"idle", "done"}
Done(t, op) == pc[t] = "done" /\ loc[t].op = op
Quiescent == \A t \in Threads : ~InCall(t)
Count(evs, e) == Cardinality({i \in DOMAIN evs : evs[i].e = e})
IsXferEv(ev) == ev.e \in {"xfer", "xfer_fail"}
Xfers(evs) == SelectSeq(evs, IsXferEv)
AllocFailed(t) == \E i \in DOMAIN log[t] : log[t][i].e = "calloc" /\ log[t][i].x = NULL

\* C1: whenever no bind or unbind call is in progress, the handle's vt and
\* bus_ctx are both null or both non-null.
C1_BothOrNeither == Quiescent => ((vt = NULL) <=> (bus_ctx = NULL))

\* C1 witness: an unbind has completed on a handle that was bound.
C1_Witness ==
    \E t \in Threads : /\ Done(t, "unbind")
                       /\ pre[t].vt # NULL /\ pre[t].bus_ctx # NULL
                       /\ vt = NULL /\ bus_ctx = NULL

\* C2: a bind whose context allocation failed returns ESP_ERR_NO_MEM, has
\* deregistered the device it registered (its last bus call), and leaves vt,
\* bus_ctx and the set of registered devices as they were before the call.
C2_AllocFailRollsBack ==
    \A t \in Threads :
        (Done(t, "bind") /\ AllocFailed(t)) =>
            /\ ret[t] = "ESP_ERR_NO_MEM"
            /\ Count(log[t], "spi_bus_add_device") = 1
            /\ Count(log[t], "spi_bus_remove_device") = 1
            /\ log[t][Len(log[t])] =
                   Ev("spi_bus_remove_device", loc[t].dev, 0, 0, 0, "ESP_OK")
            /\ loc[t].dev \notin registered
            /\ registered = pre[t].registered
            /\ vt = pre[t].vt
            /\ bus_ctx = pre[t].bus_ctx

\* C2 witness: a bind has returned after its calloc failed.
C2_Witness ==
    \E t \in Threads : Done(t, "bind") /\ AllocFailed(t) /\ loc[t].dev # NULL

\* C3: an unbind that directly follows a successful bind calls
\* spi_bus_remove_device exactly once, leaves the bus with the devices it had
\* before the bind (none, on a bus that had none), and leaves vt and bus_ctx null.
C3_BindThenUnbind ==
    \A t \in Threads :
        (Done(t, "unbind") /\ loc[t].d /\ prev.op = "bind_ok") =>
            /\ Count(log[t], "spi_bus_remove_device") = 1
            /\ prev.dev \notin registered
            /\ registered = prev.regBefore
            /\ vt = NULL
            /\ bus_ctx = NULL

\* C3 witness: bind then unbind on a bus that had no device; none is left.
C3_Witness ==
    \E t \in Threads : /\ Done(t, "unbind") /\ loc[t].d
                       /\ prev.op = "bind_ok" /\ prev.regBefore = {}
                       /\ Count(log[t], "spi_bus_remove_device") = 1
                       /\ registered = {}

\* C4: every transaction's bytes go out with the D/C line at the
\* transaction's own indicator: 0 in send_cmd, 1 in send_data, also when
\* send calls of different threads overlap.
C4_DcMatches ==
    \A t \in Threads : \A i \in DOMAIN log[t] :
        log[t][i].e = "xfer" =>
            /\ log[t][i].x = SendDc(loc[t].op)
            /\ log[t][i].y = SendDc(loc[t].op)

\* C4 witness: a send_data and a send_cmd overlap on one context, each has
\* transferred a chunk and each is about to transfer another.
C4_Witness ==
    \E t, u \in Threads :
        /\ loc[t].op = "send_data" /\ loc[u].op = "send_cmd"
        /\ loc[t].ctx = loc[u].ctx
        /\ pc[t] = "s_begin" /\ pc[u] = "s_begin"
        /\ Count(log[t], "xfer") >= 1 /\ Count(log[u], "xfer") >= 1

\* C5: a bind with a null handle or without a D/C pin returns
\* ESP_ERR_INVALID_ARG and has done nothing: no event, and handle, heap, bus
\* and pins are as before the call.
C5_InvalidArgNoEffect ==
    \A t \in Threads :
        (Done(t, "bind") /\ (~loc[t].d \/ loc[t].dc_gpio = GPIO_NUM_NC)) =>
            /\ ret[t] = "ESP_ERR_INVALID_ARG"
            /\ log[t] = <<>>
            /\ Snapshot = pre[t]

\* C5 witness: a bind without D/C pin (but with a reset pin) has returned on
\* a valid handle.
C5_Witness ==
    \E t \in Threads : /\ Done(t, "bind") /\ loc[t].d
                       /\ loc[t].dc_gpio = GPIO_NUM_NC
                       /\ loc[t].rst_gpio = RST_PIN

\* C6: when a transaction of a send fails, the send returns that
\* transaction's error code, the failing transaction is the last thing the
\* send did, and what it transferred before are the full chunks 0, MAX,
\* 2*MAX, ... up to the failing chunk, in order.
C6_FailStopsAndPropagates ==
    \A t \in Threads :
        (pc[t] = "done" /\ IsSend(loc[t].op) /\ Count(log[t], "xfer_fail") > 0) =>
            LET xs == Xfers(log[t])
                k == Len(xs)
            IN /\ log[t][Len(log[t])].e = "xfer_fail"
               /\ Count(log[t], "xfer_fail") = 1
               /\ ret[t] = log[t][Len(log[t])].s
               /\ ret[t] # "ESP_OK"
               /\ \A i \in 1..k : xs[i].z = (i - 1) * SendMax(loc[t].op)
               /\ \A i \in 1..(k - 1) : xs[i].e = "xfer"
                                        /\ xs[i].w = SendMax(loc[t].op)

\* C6 witness: a send failed in its third transaction.
C6_Witness ==
    \E t \in Threads : /\ pc[t] = "done" /\ IsSend(loc[t].op)
                       /\ Count(log[t], "xfer") = 2
                       /\ Count(log[t], "xfer_fail") = 1

\* C7: send_cmd and send_data with a null context, a null buffer or length
\* 0, and reset with a null context, return ESP_OK with no bus transaction
\* and no pin change.
C7_NullEmptyNoop ==
    \A t \in Threads :
        (pc[t] = "done" /\
            \/ IsSend(loc[t].op) /\ (loc[t].ctx = NULL \/ ~loc[t].buf \/ loc[t].n = 0)
            \/ loc[t].op = "reset" /\ loc[t].ctx = NULL) =>
            /\ ret[t] = "ESP_OK"
            /\ log[t] = <<>>
            /\ Snapshot = pre[t]

\* C7 witness: send_data with a bound context and a null buffer of nonzero
\* length has returned.
C7_Witness ==
    \E t \in Threads : /\ Done(t, "send_data") /\ loc[t].ctx # NULL
                       /\ ~loc[t].buf /\ loc[t].n > DATA_MAX

\* C8: between calls, the live contexts and the registered devices are
\* exactly those the handle references: one of each when bound, none when not.
C8_ExclusiveOwnership ==
    Quiescent =>
        /\ live = (IF bus_ctx = NULL THEN {} ELSE {bus_ctx})
        /\ registered = (IF bus_ctx = NULL THEN {} ELSE {heap[bus_ctx].dev})

\* C9: while a bind or an unbind is in progress on the handle, no other call
\* on the handle or its context is in progress.
C9_NoInterleave ==
    \A t \in Threads : \A u \in Others(t) :
        ~(InCall(t) /\ loc[t].op \in {"bind", "unbind"} /\ InCall(u))

\* C10: reset on a context with a reset pin drives the pin low, waits,
\* drives it high, waits, and returns ESP_OK with the pin high and nothing
\* else changed; on a context without reset pin it changes nothing and
\* returns ESP_OK.
C10_ResetPulse ==
    \A t \in Threads :
        (Done(t, "reset") /\ loc[t].ctx # NULL) =>
            LET rst == heap[loc[t].ctx].rst_gpio IN
            /\ ret[t] = "ESP_OK"
            /\ IF rst = GPIO_NUM_NC
               THEN log[t] = <<>> /\ Snapshot = pre[t]
               ELSE /\ Len(log[t]) = 4
                    /\ log[t][1] = Ev("gpio_set_level", rst, 0, 0, 0, "")
                    /\ log[t][2].e = "delay" /\ log[t][2].x > 0
                    /\ log[t][3] = Ev("gpio_set_level", rst, 1, 0, 0, "")
                    /\ log[t][4].e = "delay" /\ log[t][4].x > 0
                    /\ pinLevel[rst] = 1
                    /\ Snapshot = [pre[t] EXCEPT !.pinLevel[rst] = 1]

\* C10 witness: a reset on a context that has a reset pin has returned.
C10_Witness ==
    \E t \in Threads : /\ Done(t, "reset") /\ loc[t].ctx # NULL
                       /\ heap[loc[t].ctx].rst_gpio = RST_PIN
                       /\ Len(log[t]) = 4

\* C14: a send of n > 0 bytes in which every transaction succeeds issues
\* exactly ceil(n / MAX) transactions; each carries 1..MAX bytes, all but the
\* last carry MAX, and they cover bytes 0..n-1 in order without gap or overlap.
C14_Chunking ==
    \A t \in Threads :
        (pc[t] = "done" /\ IsSend(loc[t].op) /\ ret[t] = "ESP_OK"
            /\ ~(loc[t].ctx = NULL \/ ~loc[t].buf \/ loc[t].n = 0)) =>
            LET xs == Xfers(log[t])
                k == Len(xs)
                max == IF loc[t].op = "send_cmd" THEN CMD_MAX ELSE DATA_MAX
            IN /\ k = (loc[t].n + max - 1) \div max
               /\ \A i \in 1..k : /\ xs[i].e = "xfer"
                                  /\ xs[i].w >= 1 /\ xs[i].w <= max
                                  /\ xs[i].z = (IF i = 1 THEN 0
                                                ELSE xs[i - 1].z + xs[i - 1].w)
               /\ \A i \in 1..(k - 1) : xs[i].w = max
               /\ xs[k].z + xs[k].w = loc[t].n

\* C14 witness: a send_data of 2 * 1024 + 1 bytes has completed in three
\* transactions.
C14_Witness ==
    \E t \in Threads : /\ Done(t, "send_data") /\ ret[t] = "ESP_OK"
                       /\ loc[t].n = 2 * DATA_MAX + 1
                       /\ Count(log[t], "xfer") = 3

\* C15: a successful bind has configured the D/C and reset pins as outputs,
\* then registered the device, then allocated and filled the context, then
\* (with a reset pin) pulsed reset high-low-high, and only then stored vt and
\* bus_ctx; before that the handle's vt and bus_ctx are as before the call.
BindPrePublish ==
    {"b_pin_dc", "b_pin_rst", "b_add", "b_alloc", "b_rollback",
     "b_rst1", "b_rst2", "b_rst3", "b_pub_vt"}

BindSuccessLog(dc, rst, dev, ctx) ==
    << Ev("gpio_config", dc, 0, 0, 0, "output"),
       Ev("gpio_set_level", dc, 0, 0, 0, "") >>
    \o (IF rst = GPIO_NUM_NC THEN <<>>
        ELSE << Ev("gpio_config", rst, 0, 0, 0, "output"),
                Ev("gpio_set_level", rst, 1, 0, 0, "") >>)
    \o << Ev("spi_bus_add_device", dev, 0, 0, 0, "ESP_OK"),
          Ev("calloc", ctx, 0, 0, 0, "") >>
    \o (IF rst = GPIO_NUM_NC THEN <<>>
        ELSE << Ev("gpio_set_level", rst, 1, 0, 0, ""), Ev("delay", 1, 0, 0, 0, ""),
                Ev("gpio_set_level", rst, 0, 0, 0, ""), Ev("delay", 1, 0, 0, 0, ""),
                Ev("gpio_set_level", rst, 1, 0, 0, ""), Ev("delay", 5, 0, 0, 0, "") >>)

C15_BindOrder ==
    \A t \in Threads :
        /\ (loc[t].op = "bind" /\ pc[t] \in BindPrePublish) =>
               (vt = pre[t].vt /\ bus_ctx = pre[t].bus_ctx)
        /\ (loc[t].op = "bind"
              /\ (pc[t] \in {"b_pub_vt", "b_pub_ctx"}
                  \/ (pc[t] = "done" /\ ret[t] = "ESP_OK"))) =>
               /\ log[t] = BindSuccessLog(loc[t].dc_gpio, loc[t].rst_gpio,
                                          loc[t].dev, loc[t].ctx)
               /\ loc[t].dev \in registered
               /\ loc[t].ctx \in live
               /\ heap[loc[t].ctx].dev = loc[t].dev
               /\ heap[loc[t].ctx].dc_gpio = loc[t].dc_gpio
               /\ heap[loc[t].ctx].rst_gpio = loc[t].rst_gpio
               /\ pinMode[loc[t].dc_gpio] = "output"
               /\ (loc[t].rst_gpio # GPIO_NUM_NC => pinLevel[loc[t].rst_gpio] = 1)
        /\ (Done(t, "bind") /\ ret[t] = "ESP_OK") =>
               (vt = VT_SPI /\ bus_ctx = loc[t].ctx)

\* C15 witness: a bind with a reset pin has returned ESP_OK on a handle that
\* was not bound.
C15_Witness ==
    \E t \in Threads : /\ Done(t, "bind") /\ ret[t] = "ESP_OK"
                       /\ loc[t].rst_gpio = RST_PIN
                       /\ pre[t].vt = NULL /\ vt = VT_SPI

\* C16: a bind that fails after it configured the control pins leaves the
\* D/C and reset pins disabled, no device registered by it, and the handle
\* as it was.
C16_FullRollback ==
    \A t \in Threads :
        (Done(t, "bind") /\ ret[t] # "ESP_OK" /\ log[t] # <<>>) =>
            /\ pinMode[loc[t].dc_gpio] = "disabled"
            /\ (loc[t].rst_gpio # GPIO_NUM_NC =>
                    pinMode[loc[t].rst_gpio] = "disabled")
            /\ registered = pre[t].registered
            /\ vt = pre[t].vt
            /\ bus_ctx = pre[t].bus_ctx

\* C18: an unbind with a null handle, or on a handle whose bus_ctx is null,
\* returns ESP_OK without any deregister call, pin change or free; an unbind
\* on a valid handle leaves bus_ctx null after at most one deregister call
\* and one free, so a second unbind in a row does nothing.
C18_UnbindIdempotent ==
    \A t \in Threads :
        /\ (Done(t, "unbind") /\ (~loc[t].d \/ pre[t].bus_ctx = NULL)) =>
               /\ ret[t] = "ESP_OK"
               /\ log[t] = <<>>
               /\ Snapshot = pre[t]
        /\ (Done(t, "unbind") /\ loc[t].d) =>
               /\ bus_ctx = NULL
               /\ Count(log[t], "spi_bus_remove_device") <= 1
               /\ Count(log[t], "free") <= 1

\* C18 witness: an unbind with a null handle has returned while the handle
\* is bound.
C18_Witness ==
    \E t \in Threads : /\ Done(t, "unbind") /\ ~loc[t].d
                       /\ bus_ctx # NULL /\ vt # NULL

\* C19: the value a transaction carries gives back the context and the
\* indicator it was packed from.
C19_PackRoundTrip ==
    \A t \in Threads :
        pc[t] = "s_wire" =>
            /\ loc[t].ctx % 2 = 0
            /\ unpack_ctx(loc[t].user) = loc[t].ctx
            /\ unpack_dc(loc[t].user) = loc[t].dcbit
            /\ loc[t].dcbit = (IF loc[t].op = "send_cmd" THEN 0 ELSE 1)

\* C19 witness: a data transaction on the second context address is in
\* flight.
C19_Witness ==
    \E t \in Threads : /\ pc[t] = "s_wire" /\ loc[t].op = "send_data"
                       /\ loc[t].ctx = 16 /\ loc[t].user = 17

\* C17: an unbind on a bound handle whose deregistration failed has still
\* disabled the pins, freed the context and nulled vt and bus_ctx, and
\* returns the deregistration's error; an unbind returns ESP_OK exactly when
\* no deregistration in it failed.
RemoveFailed(t) ==
    \E i \in DOMAIN log[t] : /\ log[t][i].e = "spi_bus_remove_device"
                             /\ log[t][i].s # "ESP_OK"

C17_UnbindBestEffort ==
    \A t \in Threads :
        /\ (Done(t, "unbind") /\ RemoveFailed(t)) =>
               /\ \E i \in DOMAIN log[t] :
                      /\ log[t][i].e = "spi_bus_remove_device"
                      /\ ret[t] = log[t][i].s
               /\ Count(log[t], "spi_bus_remove_device") = 1
               /\ \E i \in DOMAIN log[t] :
                      log[t][i] = Ev("gpio_config", DC_PIN, 0, 0, 0, "disabled")
               /\ pinMode[DC_PIN] = "disabled"
               /\ log[t][Len(log[t])] = Ev("free", loc[t].ctx, 0, 0, 0, "")
               /\ loc[t].ctx \notin live
               /\ vt = NULL
               /\ bus_ctx = NULL
        /\ Done(t, "unbind") => ((ret[t] = "ESP_OK") <=> ~RemoveFailed(t))

\* C17 witness: an unbind whose deregistration was refused has completed.
C17_Witness ==
    \E t \in Threads : /\ Done(t, "unbind") /\ RemoveFailed(t)
                       /\ loc[t].ctx # NULL /\ ~ub

\* C11: display() on a handle with no active transport (never bound, or
\* unbound again) returns the not-bound failure and causes no call to the
\* transport, so no bus transaction.
C11_DisplayNotBound ==
    \A t \in Threads :
        (Done(t, "display") /\ (pre[t].vt = NULL \/ pre[t].bus_ctx = NULL)) =>
            /\ ret[t] = "NOT_BOUND"
            /\ log[t] = <<>>
            /\ loc[t].sent = <<>>
            /\ cur = NoTrans
            /\ Snapshot = pre[t]

\* C11 witness: display() has returned on a handle that was bound and then
\* unbound.
C11_Witness ==
    \E t \in Threads : /\ Done(t, "display") /\ ret[t] = "NOT_BOUND"
                       /\ vt = NULL /\ bus_ctx = NULL
                       /\ prev.op = "other" /\ pinLevel[RST_PIN] = 1
                       /\ pinMode[DC_PIN] = "disabled"

\* C12: the bytes a display() call has streamed are the leading bytes of the
\* framebuffer as it was after some number of completed drawing calls, all of
\* it when the flush succeeded; never a framebuffer with a drawing call
\* partly applied.
IsPrefixOf(q, f) == Len(q) <= Len(f) /\ q = SubSeq(f, 1, Len(q))

C12_NoTornFlush ==
    \A t \in Threads :
        Done(t, "display") =>
            /\ \E f \in snaps : IsPrefixOf(loc[t].sent, f)
            /\ ret[t] = "ESP_OK" => loc[t].sent \in snaps

\* C12 witness: a display() has streamed a framebuffer that a draw_rect has
\* changed, while a drawing call of another thread waits for the lock.
C12_Witness ==
    \E t \in Threads, u \in Threads :
        /\ Done(t, "display") /\ ret[t] = "ESP_OK"
        /\ loc[t].sent # ZeroFb
        /\ u # t /\ IsDrawOp(loc[u].op) /\ pc[u] = "f_lock"

\* C13: draw_pixel(x, y, on) with 0 <= x < width and 0 <= y < height
\* returns ESP_OK and leaves bit y % 8 of byte x + (y / 8) * width equal to
\* on and every other bit as it was; with (x, y) outside it returns
\* ESP_ERR_INVALID_ARG and leaves the framebuffer as it was.
HasBit(b, k) == (b % (2 ^ (k + 1))) >= 2 ^ k

C13_DrawPixel ==
    \A t \in Threads :
        Done(t, "draw_pixel") =>
            IF 0 <= loc[t].x /\ loc[t].x < FbWidth /\ 0 <= loc[t].y /\ loc[t].y < FbHeight
            THEN /\ ret[t] = "ESP_OK"
                 /\ \A i \in 0..(FbLen - 1), k \in 0..7 :
                       HasBit(fb[i + 1], k) =
                           IF i = loc[t].x + (loc[t].y \div 8) * FbWidth /\ k = loc[t].y % 8
                           THEN loc[t].on
                           ELSE HasBit(pre[t].fb[i + 1], k)
                 /\ \A i \in 1..FbLen : fb[i] \in 0..255
            ELSE /\ ret[t] = "ESP_ERR_INVALID_ARG"
                 /\ fb = pre[t].fb

\* C13 witness: a draw_pixel on the second page has cleared a bit that was
\* set.
C13_Witness ==
    \E t \in Threads : /\ Done(t, "draw_pixel") /\ ret[t] = "ESP_OK"
                       /\ loc[t].y >= 8 /\ ~loc[t].on
                       /\ fb # pre[t].fb

====
